---- MODULE Spec2Model ----
(***************************************************************************)
(* kubectl-watch (src/main.go): the watch command's Run, the watchPods     *)
(* goroutine with its filter/projection loop, the RetryWatcher that        *)
(* watchPods builds with toolsWatch.NewRetryWatcher, and the API server    *)
(* behind clientset.CoreV1().Pods(namespace).Watch.                        *)
(*                                                                         *)
(* Resource versions are naturals: 0 is the empty string ("watch from      *)
(* now"), the n-th change the server records has version BaseRV + n.       *)
(* The wall-clock AGE column is left out of the display record.            *)
(***************************************************************************)
EXTENDS Integers, Sequences, FiniteSets, TLC

VARIABLES
    o,                    \* WatchOptions: eventType, status, resourceName
    pcMain,               \* position of main/RunE/Run
    wgCounter,            \* sync.WaitGroup counter of Run
    pcWatch,              \* position of the watchPods goroutine
    event,                \* the loop variable: the event last read
    lastResult,           \* how the last loop body ended
    output,               \* lines printed on stdout
    lastCast,             \* object kind of the last event.Object.(*corev1.Pod)
    delivered,            \* versions of the events read from ResultChan
    pcRW,                 \* position of RetryWatcher.receive
    lastResourceVersion,  \* RetryWatcher.lastResourceVersion
    sendEvent,            \* the event RetryWatcher.send is blocked on
    log,                  \* the server's change log
    stream,               \* the open watch stream and its log position
    watchCount,           \* number of Watch calls made by watchFunc
    startRV,              \* version the first stream started after
    lastCall,             \* the last Watch call: its token, and the options
                          \* watchFunc was given
    fatal,                \* what a stream has delivered that stops the
                          \* RetryWatcher: "", "gone" or "malformed"
    procState,            \* "running" | "crashed" | "exited"
    exitCode,
    cmdline,              \* the command line: args and the --namespace flag
    rawConfig,            \* the kubeconfig: CurrentContext and Contexts
    userSpecifiedNamespace,
    resultingContext,     \* whether o.resultingContext is non-nil
    namespace,            \* the namespace watchPods watches
    cmdErr                \* the error RunE returned, "" for none

mainVars == <<pcMain, wgCounter>>
loopVars == <<pcWatch, event, lastResult, output, lastCast, delivered>>
rwVars == <<pcRW, lastResourceVersion, sendEvent>>
serverVars == <<log, stream>>
callVars == <<watchCount, startRV, lastCall>>
procVars == <<procState, exitCode>>
cliVars == <<cmdline, rawConfig, userSpecifiedNamespace, resultingContext,
             namespace, cmdErr>>

vars == <<o, mainVars, loopVars, rwVars, serverVars, callVars, fatal, procVars,
          cliVars>>

----------------------------------------------------------------------------
(* Bounds *)

MaxLog == 2          \* changes the server records
MaxWatchCalls == 3   \* Watch calls (the first one and the reconnects)
MaxContainers == 2   \* spec containers of a pod of ProjectedEvents
MaxStatuses == 2     \* container statuses of a pod of ProjectedEvents

(* Program constants *)

InitialRV == 1       \* NewRetryWatcher("1", ...)
EmptyRV == 0         \* the zero value of ListOptions.ResourceVersion
StatusGone == 410
StatusInternalServerError == 500
StatusGatewayTimeout == 504
PanicExitCode == 2   \* exit status of a Go program that dies of a panic
ErrorExitCode == 1   \* os.Exit(1) of main
MaxInt32 == 2147483647

\* version of the collection before the server records its first change:
\* the version the RetryWatcher is built with
BaseRV == InitialRV

----------------------------------------------------------------------------
(* Data *)

NoStatuses == << >>

Pod(name, phase, containers, statuses, rv) ==
    [kind |-> "Pod", name |-> name, phase |-> phase, containers |-> containers,
     statuses |-> statuses, rv |-> rv, code |-> 0]

Status(code) ==
    [kind |-> "Status", name |-> "", phase |-> "", containers |-> 0,
     statuses |-> NoStatuses, rv |-> 0, code |-> code]

CS(ready, restartCount) == [ready |-> ready, restartCount |-> restartCount]

Event(type, object) == [type |-> type, object |-> object]

NoEvent == Event("", Status(0))

\* the changes the server may record (versions are given on recording):
\* pod a is added with no container status yet, pod a is deleted while it
\* runs with one of its two containers ready, pod b has reported the status
\* of the first of its two containers only
Changes ==
    { Event("ADDED", Pod("a", "Pending", 2, NoStatuses, 0)),
      Event("DELETED", Pod("a", "Running", 2, <<CS(TRUE, 1), CS(FALSE, 0)>>, 0)),
      Event("MODIFIED", Pod("b", "Running", 2, <<CS(TRUE, 1)>>, 0)) }

\* restart counts of the pods of ProjectedEvents: int32 values
RestartCounts == {0, 1, MaxInt32}

ErrorCodes == {StatusGone, StatusInternalServerError, StatusGatewayTimeout}

\* values of --event, --status and the NAME argument
EventTypeFlags == {"", "DELETED", "BOOKMARK"}
StatusFlags == {"", "Running"}
ResourceNames == {"", "a"}

Header == [line |-> "header"]

----------------------------------------------------------------------------
(* The loop body of watchPods, main.go 298-339 *)

\* int32 addition of containerRestarts += RestartCount, b >= 0: the sum
\* wraps around past MaxInt32 (two's complement)
AddInt32(a, b) ==
    IF a > 0 /\ b > MaxInt32 - a
    THEN ((a - MaxInt32 - 1) + b) - MaxInt32 - 1
    ELSE a + b

\* for container := range pod.Spec.Containers, indices 1..n in order; the
\* accumulator is [restarts, ready, total, panic]
RECURSIVE ContainerLoop(_, _, _, _)
ContainerLoop(pod, container, n, acc) ==
    IF container > n \/ acc.panic THEN acc
    ELSE IF Len(pod.statuses) > 0
         THEN IF container > Len(pod.statuses)
              THEN [acc EXCEPT !.panic = TRUE]   \* index out of range
              ELSE ContainerLoop(pod, container + 1, n,
                     [restarts |-> AddInt32(acc.restarts,
                                     pod.statuses[container].restartCount),
                      ready |-> IF pod.statuses[container].ready
                                THEN acc.ready + 1 ELSE acc.ready,
                      total |-> acc.total + 1,
                      panic |-> FALSE])
         ELSE ContainerLoop(pod, container + 1, n,
                [acc EXCEPT !.total = acc.total + 1])

Counts(pod) ==
    ContainerLoop(pod, 1, pod.containers,
                  [restarts |-> 0, ready |-> 0, total |-> 0, panic |-> FALSE])

NoRecord == [line |-> "none"]

DisplayRecord(eventType, name, ready, total, status, restarts) ==
    [line |-> "record", eventType |-> eventType, name |-> name, ready |-> ready,
     total |-> total, status |-> status, restarts |-> restarts]

Outcome(result, cast, record) ==
    [result |-> result, cast |-> cast, record |-> record]

\* event.Object.(*corev1.Pod): the single-value assertion panics on any
\* other dynamic type
IsPod(object) == object.kind = "Pod"

\* one iteration of the range loop on event ev under the options opts:
\* "continue" (filtered out), "emit" (a line printed) or "panic"
LoopBody(opts, ev) ==
    IF opts.eventType # "" /\ ev.type # opts.eventType
    THEN Outcome("continue", "", NoRecord)
    ELSE IF ~IsPod(ev.object)
    THEN Outcome("panic", ev.object.kind, NoRecord)
    ELSE IF opts.status # "" /\ ev.object.phase # opts.status
    THEN Outcome("continue", ev.object.kind, NoRecord)
    ELSE IF opts.resourceName # "" /\ ev.object.name # opts.resourceName
    THEN Outcome("continue", ev.object.kind, NoRecord)
    ELSE LET c == Counts(ev.object)
         IN  IF c.panic
             THEN Outcome("panic", ev.object.kind, NoRecord)
             ELSE Outcome("emit", ev.object.kind,
                          DisplayRecord(ev.type, ev.object.name, c.ready,
                                        c.total, ev.object.phase, c.restarts))

----------------------------------------------------------------------------
(* watchFunc and the server *)

\* the ResourceVersion of the ListOptions watchFunc hands to Watch: it
\* builds a fresh ListOptions with TimeoutSeconds only
WatchFuncToken(options) == EmptyRV

\* version of the n-th recorded change
VersionAt(n) == BaseRV + n

\* log position a stream opened with the token starts after
StartPos(token) == IF token = EmptyRV THEN Len(log) ELSE token - BaseRV

ClosedStream == [open |-> FALSE, pos |-> 0]

OpenStream(token) == [open |-> TRUE, pos |-> StartPos(token)]

WatchCall(token, options) == [token |-> token, options |-> options]

Running == procState = "running"

----------------------------------------------------------------------------
(* The command line and the kubeconfig, main.go 93-235 and 272-286 *)

NamespaceAll == ""       \* Pods("") lists and watches every namespace

NoContexts == [name \in {} |-> ""]

\* a kubeconfig holding the context "ctx" with the given namespace
OneContext(ns) == [name \in {"ctx"} |-> ns]

Kubeconfig(current, contexts) ==
    [CurrentContext |-> current, Contexts |-> contexts]

Cmdline(arguments, ns) == [args |-> arguments, namespace |-> ns]

\* the kubeconfig and command line of the runs that start at Run
DefaultConfig == Kubeconfig("ctx", OneContext(NamespaceAll))

ArgsFor(resourceName) ==
    IF resourceName = "" THEN <<"pods">> ELSE <<"pods", resourceName>>

\* the command lines and kubeconfigs of the runs that start at Complete
ArgLists == { << >>, <<"pods">>, <<"pod", "a">>, <<"deploy">>,
              <<"pods", "a", "b">> }
NamespaceFlags == {"", "kube-system"}
Kubeconfigs ==
    { Kubeconfig("ctx", OneContext(NamespaceAll)),
      Kubeconfig("ctx", OneContext("dev")),
      Kubeconfig("ctx", NoContexts),
      Kubeconfig("", OneContext("dev")) }
AllEventTypeFlags == EventTypeFlags \cup {"CHANGED"}
AllStatusFlags == StatusFlags \cup {"Ready"}

ErrOnlyPods == "Only pod resources are supported"
ErrNoContext == "no context is currently set"
ErrTooManyArgs == "Too many arguments were provided"

\* Complete, main.go 128-210: the error it returns, the resource name and
\* whether it builds a resulting context
CompleteResult(line, config) ==
    IF Len(line.args) > 0 /\ line.args[1] \notin {"pod", "pods"}
    THEN [err |-> ErrOnlyPods, resourceName |-> "", resulting |-> FALSE]
    ELSE LET name == IF Len(line.args) > 1 THEN line.args[2] ELSE ""
         IN  IF line.namespace = ""
             THEN [err |-> "", resourceName |-> name, resulting |-> FALSE]
             ELSE IF config.CurrentContext \notin DOMAIN config.Contexts
             THEN [err |-> ErrNoContext, resourceName |-> name,
                   resulting |-> FALSE]
             ELSE [err |-> "", resourceName |-> name, resulting |-> TRUE]

\* a Validate that does not count the arguments
ValidateErrContextOnly(config, arguments) ==
    IF config.CurrentContext = "" THEN ErrNoContext ELSE ""

\* Validate, main.go 226-235: the error it returns, "" for nil
ValidateErr(config, arguments) ==
    IF config.CurrentContext = "" THEN ErrNoContext
    ELSE IF Len(arguments) > 2 THEN ErrTooManyArgs
    ELSE ""

\* the namespace watchPods picks, main.go 272-286
SelectNamespace(nsFlag, resulting, config) ==
    IF nsFlag # "" /\ resulting THEN nsFlag
    ELSE IF config.CurrentContext \in DOMAIN config.Contexts
    THEN config.Contexts[config.CurrentContext]
    ELSE "default"

\* a header printed twice
PrintHeaderTwice(out) == Append(Append(out, Header), Header)

\* the header line, main.go 288
PrintHeader(out) == Append(out, Header)

\* a record printed above the records printed before it
EmitFirst(out, record) == <<Head(out)>> \o <<record>> \o Tail(out)

\* the record line, main.go 339
Emit(out, record) == Append(out, record)

----------------------------------------------------------------------------
(* Init: RunE has run Complete and Validate and enters Run *)

Init ==
    /\ o \in [eventType : EventTypeFlags, status : StatusFlags,
              resourceName : ResourceNames]
    /\ pcMain = "Run"
    /\ wgCounter = 0
    /\ pcWatch = "notStarted"
    /\ event = NoEvent
    /\ lastResult = ""
    /\ output = << >>
    /\ lastCast = ""
    /\ delivered = << >>
    /\ pcRW = "idle"
    /\ lastResourceVersion = EmptyRV
    /\ sendEvent = NoEvent
    /\ log = << >>
    /\ stream = ClosedStream
    /\ watchCount = 0
    /\ startRV = EmptyRV
    /\ lastCall = WatchCall(EmptyRV, EmptyRV)
    /\ fatal = ""
    /\ procState = "running"
    /\ exitCode = 0
    /\ cmdline = Cmdline(ArgsFor(o.resourceName), "")
    /\ rawConfig = DefaultConfig
    /\ userSpecifiedNamespace = ""
    /\ resultingContext = FALSE
    /\ namespace = "default"
    /\ cmdErr = ""

----------------------------------------------------------------------------
(* RunE, main.go 93-105, from the start of the command *)

\* the state when cobra has bound the flags and calls RunE
CliInit ==
    /\ o \in [eventType : AllEventTypeFlags, status : AllStatusFlags,
              resourceName : {""}]
    /\ cmdline \in [args : ArgLists, namespace : NamespaceFlags]
    /\ rawConfig \in Kubeconfigs
    /\ pcMain = "Complete"
    /\ wgCounter = 0
    /\ pcWatch = "notStarted"
    /\ event = NoEvent
    /\ lastResult = ""
    /\ output = << >>
    /\ lastCast = ""
    /\ delivered = << >>
    /\ pcRW = "idle"
    /\ lastResourceVersion = EmptyRV
    /\ sendEvent = NoEvent
    /\ log = << >>
    /\ stream = ClosedStream
    /\ watchCount = 0
    /\ startRV = EmptyRV
    /\ lastCall = WatchCall(EmptyRV, EmptyRV)
    /\ fatal = ""
    /\ procState = "running"
    /\ exitCode = 0
    /\ userSpecifiedNamespace = ""
    /\ resultingContext = FALSE
    /\ namespace = "default"
    /\ cmdErr = ""

\* o.Complete(c, args); an error is returned by RunE and Execute, and main
\* calls os.Exit(1)
Complete ==
    /\ Running /\ pcMain = "Complete"
    /\ LET r == CompleteResult(cmdline, rawConfig)
       IN  /\ userSpecifiedNamespace' = cmdline.namespace
           /\ o' = [o EXCEPT !.resourceName = r.resourceName]
           /\ resultingContext' = r.resulting
           /\ cmdErr' = r.err
           /\ IF r.err # ""
              THEN /\ pcMain' = "exited"
                   /\ procState' = "exited"
                   /\ exitCode' = ErrorExitCode
              ELSE /\ pcMain' = "Validate"
                   /\ UNCHANGED procVars
    /\ UNCHANGED <<cmdline, rawConfig, namespace, wgCounter, loopVars, rwVars,
                   serverVars, callVars, fatal>>

\* o.Validate(); an error ends the process like an error of Complete
Validate ==
    /\ Running /\ pcMain = "Validate"
    /\ LET err == ValidateErr(rawConfig, cmdline.args)
       IN  /\ cmdErr' = err
           /\ IF err # ""
              THEN /\ pcMain' = "exited"
                   /\ procState' = "exited"
                   /\ exitCode' = ErrorExitCode
              ELSE /\ pcMain' = "Run"
                   /\ UNCHANGED procVars
    /\ UNCHANGED <<o, cmdline, rawConfig, userSpecifiedNamespace,
                   resultingContext, namespace, wgCounter, loopVars, rwVars,
                   serverVars, callVars, fatal>>

----------------------------------------------------------------------------
(* Run, main.go 239-252, and main, main.go 343-351 *)

\* go watchPods(clientset, o)
RunGo ==
    /\ Running /\ pcMain = "Run"
    /\ pcMain' = "wgAdd"
    /\ pcWatch' = "start"
    /\ UNCHANGED <<o, cliVars, wgCounter, event, lastResult, output, lastCast,
                   delivered, rwVars, serverVars, callVars, fatal, procVars>>

\* wg.Add(1)
RunWgAdd ==
    /\ Running /\ pcMain = "wgAdd"
    /\ wgCounter' = wgCounter + 1
    /\ pcMain' = "wgWait"
    /\ UNCHANGED <<o, cliVars, loopVars, rwVars, serverVars, callVars, fatal, procVars>>

\* wg.Wait(): returns when the counter is zero, and then Run returns nil,
\* RunE returns nil and main ends with status 0; blocks otherwise.  Nothing
\* in the program calls wg.Done.
RunWgWait ==
    /\ Running /\ pcMain = "wgWait"
    /\ IF wgCounter = 0
       THEN /\ pcMain' = "returned"
            /\ procState' = "exited"
            /\ exitCode' = 0
       ELSE /\ pcMain' = "blocked"
            /\ UNCHANGED procVars
    /\ UNCHANGED <<o, cliVars, wgCounter, loopVars, rwVars, serverVars, callVars, fatal>>

----------------------------------------------------------------------------
(* The server behind Pods(namespace).Watch *)

\* a pod is added, modified or deleted: the change gets the next version
ServerRecord ==
    /\ Running /\ Len(log) < MaxLog
    /\ \E change \in Changes :
          log' = Append(log, [change EXCEPT
                                !.object.rv = VersionAt(Len(log) + 1)])
    /\ UNCHANGED <<o, cliVars, mainVars, loopVars, rwVars, stream, callVars, fatal,
                   procVars>>

----------------------------------------------------------------------------
(* watchPods up to the range loop, main.go 271-295 *)

\* prints the header, builds watchFunc and the RetryWatcher, whose
\* constructor starts the receive goroutine
WatchPodsStart ==
    /\ Running /\ pcWatch = "start"
    /\ namespace' = SelectNamespace(userSpecifiedNamespace, resultingContext,
                                    rawConfig)
    /\ output' = PrintHeader(output)
    /\ lastResourceVersion' = InitialRV
    /\ pcRW' = "connect"
    /\ pcWatch' = "range"
    /\ UNCHANGED <<o, cmdline, rawConfig, userSpecifiedNamespace,
                   resultingContext, cmdErr, mainVars, event, lastResult,
                   lastCast, delivered, sendEvent, serverVars, callVars, fatal,
                   procVars>>

----------------------------------------------------------------------------
(* RetryWatcher.receive/doReceive of k8s.io/client-go/tools/watch, the      *)
(* watcher main.go 295 constructs around watchFunc                          *)

\* doReceive calls watcherClient.Watch(ListOptions{ResourceVersion:
\* lastResourceVersion}), that is watchFunc (main.go 290-293)
RWWatch ==
    /\ Running /\ pcRW = "connect"
    /\ watchCount < MaxWatchCalls
    /\ LET token == WatchFuncToken(lastResourceVersion)
       IN  /\ stream' = OpenStream(token)
           /\ lastCall' = WatchCall(token, lastResourceVersion)
           /\ startRV' = IF watchCount = 0
                         THEN VersionAt(StartPos(token)) ELSE startRV
    /\ watchCount' = watchCount + 1
    /\ pcRW' = "recv"
    /\ UNCHANGED <<o, cliVars, mainVars, loopVars, lastResourceVersion, sendEvent, log,
                   fatal, procVars>>

\* the stream delivers the next recorded change: doReceive blocks in send
RWRecvEvent ==
    /\ Running /\ pcRW = "recv" /\ stream.open
    /\ stream.pos < Len(log)
    /\ sendEvent' = log[stream.pos + 1]
    /\ stream' = [stream EXCEPT !.pos = stream.pos + 1]
    /\ pcRW' = "send"
    /\ UNCHANGED <<o, cliVars, mainVars, loopVars, lastResourceVersion, log, callVars,
                   fatal, procVars>>

\* a doReceive that sends every event it gets
ForwardsEventAlways(type) == TRUE

\* whether doReceive sends an event of the type to ResultChan: all but
\* bookmarks
ForwardsEvent(type) == type # "BOOKMARK"

\* a bookmark carries an object with nothing but a resource version
BookmarkEvent(rv) == Event("BOOKMARK", Pod("", "", 0, NoStatuses, rv))

\* the stream delivers a BOOKMARK: only lastResourceVersion moves
RWRecvBookmark ==
    /\ Running /\ pcRW = "recv" /\ stream.open
    /\ IF ForwardsEvent("BOOKMARK")
       THEN /\ sendEvent' = BookmarkEvent(VersionAt(stream.pos))
            /\ pcRW' = "send"
            /\ UNCHANGED lastResourceVersion
       ELSE /\ lastResourceVersion' = VersionAt(stream.pos)
            /\ UNCHANGED <<pcRW, sendEvent>>
    /\ UNCHANGED <<o, cliVars, mainVars, loopVars, serverVars, callVars, fatal,
                   procVars>>

\* a doReceive that forwards every ERROR event and stops
OnErrorEventAlwaysFatal(code) == "fatal"

\* what doReceive does with an ERROR event of the given status code:
\* "fatal" (forward it and stop for good) or "retry"
OnErrorEvent(code) == IF code = StatusGone THEN "fatal" ELSE "retry"

\* the stream delivers an ERROR event carrying a Status
RWRecvError ==
    /\ Running /\ pcRW = "recv" /\ stream.open
    /\ \E code \in ErrorCodes :
          /\ fatal' = IF code = StatusGone THEN "gone" ELSE fatal
          /\ IF OnErrorEvent(code) = "fatal"
             THEN /\ sendEvent' = Event("ERROR", Status(code))
                  /\ pcRW' = "sendLast"
                  /\ UNCHANGED stream
             ELSE /\ stream' = ClosedStream
                  /\ pcRW' = "connect"
                  /\ UNCHANGED sendEvent
    /\ UNCHANGED <<o, cliVars, mainVars, loopVars, lastResourceVersion, log, callVars,
                   procVars>>

\* the stream's channel is closed (the connection ended or the 60 s
\* TimeoutSeconds expired): doReceive returns "not done" and is called again
RWRecvClosed ==
    /\ Running /\ pcRW = "recv" /\ stream.open
    /\ stream' = ClosedStream
    /\ pcRW' = "connect"
    /\ UNCHANGED <<o, cliVars, mainVars, loopVars, lastResourceVersion, sendEvent, log,
                   callVars, fatal, procVars>>

\* the stream delivers an object without a resourceVersion: doReceive sends
\* an ERROR event holding an internal-error Status and stops for good
RWRecvMalformed ==
    /\ Running /\ pcRW = "recv" /\ stream.open
    /\ fatal' = "malformed"
    /\ sendEvent' = Event("ERROR", Status(StatusInternalServerError))
    /\ pcRW' = "sendLast"
    /\ UNCHANGED <<o, cliVars, mainVars, loopVars, lastResourceVersion, serverVars,
                   callVars, procVars>>

\* receive has returned: resultChan is closed (defer close(rw.resultChan))
ResultChanClosed == pcRW = "done"

----------------------------------------------------------------------------
(* The range loop of watchPods, main.go 297-340 *)

\* for event := range watcher.ResultChan(): the unbuffered channel hands
\* over the event send is blocked on; doReceive then stores the event's
\* version and goes on receiving, or returns done after its last event
RangeRecv ==
    /\ Running /\ pcWatch = "range"
    /\ pcRW \in {"send", "sendLast"}
    /\ event' = sendEvent
    /\ sendEvent' = NoEvent
    /\ delivered' = Append(delivered, sendEvent.object.rv)
    /\ pcWatch' = "body"
    /\ IF pcRW = "send"
       THEN /\ lastResourceVersion' = sendEvent.object.rv
            /\ pcRW' = "recv"
            /\ UNCHANGED stream
       ELSE /\ pcRW' = "done"
            /\ stream' = ClosedStream
            /\ UNCHANGED lastResourceVersion
    /\ UNCHANGED <<o, cliVars, mainVars, lastResult, output, lastCast, log, callVars,
                   fatal, procVars>>

\* the loop body on the event read; a panic of the goroutine ends the
\* process with status 2
ProcessEvent ==
    /\ Running /\ pcWatch = "body"
    /\ LET out == LoopBody(o, event)
       IN  /\ lastResult' = out.result
           /\ lastCast' = IF out.cast # "" THEN out.cast ELSE lastCast
           /\ output' = IF out.result = "emit"
                        THEN Emit(output, out.record) ELSE output
           /\ IF out.result = "panic"
              THEN /\ pcWatch' = "panicked"
                   /\ procState' = "crashed"
                   /\ exitCode' = PanicExitCode
              ELSE /\ pcWatch' = "range"
                   /\ UNCHANGED procVars
    /\ UNCHANGED <<o, cliVars, mainVars, event, delivered, rwVars, serverVars, callVars,
                   fatal>>

\* the channel is closed and drained: the loop ends and watchPods returns
RangeClosed ==
    /\ Running /\ pcWatch = "range"
    /\ ResultChanClosed
    /\ pcWatch' = "returned"
    /\ UNCHANGED <<o, cliVars, mainVars, event, lastResult, output, lastCast, delivered,
                   rwVars, serverVars, callVars, fatal, procVars>>

----------------------------------------------------------------------------

Next ==
    \/ RunGo
    \/ RunWgAdd
    \/ RunWgWait
    \/ ServerRecord
    \/ WatchPodsStart
    \/ RWWatch
    \/ RWRecvEvent
    \/ RWRecvBookmark
    \/ RWRecvError
    \/ RWRecvClosed
    \/ RWRecvMalformed
    \/ RangeRecv
    \/ ProcessEvent
    \/ RangeClosed

Spec == Init /\ [][Next]_vars

\* the Go scheduler runs every goroutine that can take a step; the server
\* is under no obligation to record changes or to break streams
Program ==
    \/ RunGo \/ RunWgAdd \/ RunWgWait \/ WatchPodsStart \/ RWWatch
    \/ RangeRecv \/ ProcessEvent \/ RangeClosed

FairSpec == Spec /\ WF_vars(Program)

\* the process receives SIGINT or SIGTERM: the program installs no handler
\* and never calls watcher.Stop(), so the Go runtime ends the process at
\* once, wherever its goroutines are
Interrupt ==
    /\ Running
    /\ procState' = "interrupted"
    /\ UNCHANGED <<o, cliVars, mainVars, loopVars, rwVars, serverVars,
                   callVars, fatal, exitCode>>

SignalNext == Next \/ Interrupt

SignalSpec == Init /\ [][SignalNext]_vars

\* the pods of one event: every number of spec containers and every list
\* of container statuses within the bounds
ContainerStatusLists ==
    UNION { [1..n -> [ready : BOOLEAN, restartCount : RestartCounts]] :
              n \in 0..MaxStatuses }

ProjectedEvents ==
    { Event("MODIFIED", Pod("a", "Running", n, statuses, VersionAt(1))) :
        n \in 0..MaxContainers, statuses \in ContainerStatusLists }

\* the range loop has read the first event of the first stream
ProjInit ==
    /\ o \in [eventType : EventTypeFlags, status : StatusFlags,
              resourceName : ResourceNames]
    /\ event \in ProjectedEvents
    /\ log = <<event>>
    /\ delivered = <<VersionAt(1)>>
    /\ pcMain = "blocked"
    /\ wgCounter = 1
    /\ pcWatch = "body"
    /\ lastResult = ""
    /\ output = <<Header>>
    /\ lastCast = ""
    /\ pcRW = "recv"
    /\ lastResourceVersion = VersionAt(1)
    /\ sendEvent = NoEvent
    /\ stream = [open |-> TRUE, pos |-> 1]
    /\ watchCount = 1
    /\ startRV = BaseRV
    /\ lastCall = WatchCall(EmptyRV, InitialRV)
    /\ fatal = ""
    /\ procState = "running"
    /\ exitCode = 0
    /\ cmdline = Cmdline(ArgsFor(o.resourceName), "")
    /\ rawConfig = DefaultConfig
    /\ userSpecifiedNamespace = ""
    /\ resultingContext = FALSE
    /\ namespace = NamespaceAll
    /\ cmdErr = ""

ProjNext == ProcessEvent

\* the loop body on every pod of ProjectedEvents
ProjSpec == ProjInit /\ [][ProjNext]_vars

\* the command from RunE to its first Watch call, for every command line
\* and kubeconfig
CliNext ==
    \/ Complete
    \/ Validate
    \/ RunGo
    \/ RunWgAdd
    \/ RunWgWait
    \/ WatchPodsStart
    \/ RWWatch

CliSpec == CliInit /\ [][CliNext]_vars

----------------------------------------------------------------------------
(* Properties *)

\* the filter of the watch command: every non-empty field matches exactly
Matches(opts, ev) ==
    /\ opts.eventType = "" \/ ev.type = opts.eventType
    /\ opts.status = "" \/ ev.object.phase = opts.status
    /\ opts.resourceName = "" \/ ev.object.name = opts.resourceName

AllFiltersEmpty == o.eventType = "" /\ o.status = "" /\ o.resourceName = ""

\* the loop body has run to its end on the event in the loop variable
Processed == pcWatch \in {"range", "returned", "panicked"} /\ lastResult # ""

LastLine == output[Len(output)]

PodEventsDelivered ==
    Cardinality({i \in DOMAIN delivered : delivered[i] # EmptyRV})

ReadyEntries(statuses) ==
    Cardinality({i \in DOMAIN statuses : statuses[i].ready})

RECURSIVE SumRestarts(_)
SumRestarts(statuses) ==
    IF statuses = << >> THEN 0
    ELSE Head(statuses).restartCount + SumRestarts(Tail(statuses))

\* C1: once a version has been observed, every Watch call watchFunc makes
\* carries the last observed version as its token (never the empty token).
C1_WatchResumesFromLastObserved ==
    (watchCount > 0 /\ lastCall.options > BaseRV)
        => lastCall.token = lastCall.options

\* C2: the events read by the range loop are the changes recorded after
\* the starting position, in order, with none skipped and none repeated.
C2_GapFree ==
    \A i \in DOMAIN delivered :
        delivered[i] # EmptyRV => delivered[i] = startRV + i

\* C3: when the server has answered 410 Gone and the event sequence has
\* ended, the condition has been reported (the process does not go on
\* silently with nothing said).
C3_GoneIsReported ==
    (fatal = "gone" /\ pcWatch = "returned") => exitCode # 0

\* C4: as long as the stream has met transient faults only (ERROR events
\* other than 410 Gone, closed connections, timeouts), no ERROR event is
\* on its way to or in the range loop, no Status object has been cast, the
\* result channel is open, and the loop and the RetryWatcher are both
\* still at work.
C4_TransientFaultsRecovered ==
    fatal = "" =>
        /\ event.type # "ERROR" /\ sendEvent.type # "ERROR"
        /\ lastCast # "Status"
        /\ ~ResultChanClosed
        /\ pcWatch # "returned"
        /\ (watchCount > 0 /\ Running) =>
              /\ pcWatch \in {"range", "body"}
              /\ pcRW \in {"connect", "recv", "send"}

\* a record has been printed for an event that only a stream opened by a
\* reconnect can have delivered (an earlier change was skipped)
C4_Witness ==
    /\ fatal = "" /\ watchCount >= 2
    /\ pcWatch = "range" /\ lastResult = "emit"
    /\ delivered[Len(delivered)] > startRV + Len(delivered)

\* C5: the loop body prints a record for a pod event if and only if the
\* event matches every non-empty filter; it never fails, and the record
\* printed is the one of that event.
C5_EmitIffMatch ==
    (Processed /\ IsPod(event.object)) =>
        /\ lastResult # "panic"
        /\ lastResult = "emit" <=> Matches(o, event)
        /\ lastResult = "emit" =>
              /\ LastLine.eventType = event.type
              /\ LastLine.name = event.object.name
        /\ Len(output) - 1 <= PodEventsDelivered

\* C6: with no filter set, every pod event read by the loop has printed
\* exactly one record.
C6_NoFilterOneRecordEach ==
    (AllFiltersEmpty /\ pcWatch \in {"range", "returned", "panicked"}) =>
        Len(output) - 1 = PodEventsDelivered

\* C7: for an admitted event a record is printed whose total is the number
\* of spec containers, whose ready count is the number of ready status
\* entries and whose restarts are the sum over the status entries present.
C7_Accounting ==
    (Processed /\ IsPod(event.object) /\ Matches(o, event)) =>
        /\ lastResult = "emit"
        /\ LastLine.total = event.object.containers
        /\ LastLine.ready = ReadyEntries(event.object.statuses)
        /\ LastLine.restarts = SumRestarts(event.object.statuses)

\* C8: the pod type assertion is never performed on a Status object.
C8_OnlyPodsAreCast == lastCast # "Status"

\* C9: once watchPods has returned, Run's wait ends and Run returns.
C9_RunReturnsAfterWatch == (pcWatch = "returned") ~> (pcMain = "returned")

\* C10: a fatal condition leads to Run returning and the process ending
\* with a non-zero status.
C10_FatalExitsNonZero ==
    (fatal # "") ~> (pcMain = "returned" /\ procState = "exited" /\ exitCode # 0)

AllowedEventKinds == {"ADDED", "MODIFIED", "DELETED", "BOOKMARK"}
AllowedPhases == {"Pending", "Running", "Succeeded", "Failed", "Unknown"}

WatchNotStarted ==
    /\ pcWatch = "notStarted" /\ pcRW = "idle"
    /\ output = << >> /\ watchCount = 0 /\ ~stream.open

\* C11: with an --event or --status value outside the allowed sets, no
\* stream is opened and no header or record is printed.
C11_BadFilterRejected ==
    (  o.eventType \notin AllowedEventKinds \cup {""}
    \/ o.status \notin AllowedPhases \cup {""})
        => (output = << >> /\ watchCount = 0)

\* C17: "watch pods" without --namespace watches every namespace.
C17_NoNamespaceFlagWatchesAll ==
    (watchCount > 0 /\ cmdline.args = <<"pods">> /\ cmdline.namespace = "")
        => namespace = NamespaceAll

\* the command lines and kubeconfigs C18 names
Rejected ==
    \/ Len(cmdline.args) > 0 /\ cmdline.args[1] \notin {"pod", "pods"}
    \/ Len(cmdline.args) > 2
    \/ rawConfig.CurrentContext = ""

\* C18: when the first argument is neither pod nor pods, when there are
\* more than two arguments or when no current context is set, the watch is
\* never started (no goroutine, no stream, no header) and the command ends
\* with an error.
C18_WatchOnlyAfterValidation ==
    Rejected =>
        /\ WatchNotStarted
        /\ pcMain \in {"Complete", "Validate", "exited"}
        /\ pcMain = "exited" => (cmdErr # "" /\ exitCode = ErrorExitCode)

\* Validate has turned down a command line of three arguments
C18_Witness ==
    /\ Rejected /\ pcMain = "exited"
    /\ cmdErr = ErrTooManyArgs /\ exitCode = ErrorExitCode

EventOf(v) == log[v - BaseRV]

\* the events the loop body has run on, by version, in the order read
ProcessedVersions ==
    IF pcWatch = "body" THEN SubSeq(delivered, 1, Len(delivered) - 1)
    ELSE delivered

PrintsRecord(v) == v # EmptyRV /\ LoopBody(o, EventOf(v)).result = "emit"

\* the records of the processed events that print one, in the order read
ExpectedRecords ==
    LET vs == SelectSeq(ProcessedVersions, PrintsRecord)
    IN  [i \in 1..Len(vs) |-> LoopBody(o, EventOf(vs[i])).record]

\* C13: events are read in the server's order, the event in the loop body
\* is the last one read, and the records printed are those of the events
\* processed so far, in the order the events were read.
C13_RecordsInDeliveryOrder ==
    /\ \A i, j \in DOMAIN delivered :
          (i < j /\ delivered[j] # EmptyRV) => delivered[i] < delivered[j]
    /\ pcWatch = "body" => event.object.rv = delivered[Len(delivered)]
    /\ output # << >> => Tail(output) = ExpectedRecords

\* two different records have been printed, the second for an event read
\* after a reconnect (the second Watch call was made when the first change
\* was the last version seen)
C13_Witness ==
    /\ Len(output) = 3 /\ output[2] # output[3]
    /\ delivered = <<VersionAt(1), VersionAt(2)>>
    /\ watchCount = 2 /\ lastCall.options = VersionAt(1)

\* C16: the header is the first line printed, it is printed before the
\* range loop starts, and no later line is a header.
C16_HeaderOnce ==
    /\ pcWatch \in {"notStarted", "start"} => output = << >>
    /\ pcWatch \notin {"notStarted", "start"} =>
          (Len(output) >= 1 /\ output[1] = Header)
    /\ \A i \in DOMAIN output : i > 1 => output[i] # Header

\* a record has been printed under the header after a reconnect
C16_Witness ==
    /\ watchCount >= 2 /\ Len(output) >= 2
    /\ output[1] = Header /\ output[2].line = "record"

\* C14: when the process is told to shut down, the event in the loop body
\* has been processed to its end.
C14_ShutdownCompletesEvent == procState = "interrupted" => pcWatch # "body"

\* C15: the RetryWatcher's current token starts out empty, and the first
\* invocation of watchFunc is given the empty token and hands it to Watch.
C15_FirstStreamFromEmptyToken ==
    /\ (pcRW = "connect" /\ watchCount = 0) => lastResourceVersion = EmptyRV
    /\ watchCount = 1 =>
          (lastCall.options = EmptyRV /\ lastCall.token = EmptyRV)

\* C19: in every record printed, 0 <= ready <= total and restarts >= 0.
C19_CountsInRange ==
    \A i \in DOMAIN output :
        output[i].line = "record" =>
            /\ 0 <= output[i].ready /\ output[i].ready <= output[i].total
            /\ output[i].restarts >= 0

====
